---- MODULE Spec2Model ----
(***************************************************************************)
(* A model of the sway_command builder: the incremental assembly of a      *)
(* CriteriaList, a CriteriaCommand and a CommandList, each keeping a       *)
(* cached string `rep` next to its structured data.                        *)
(*                                                                         *)
(* A Rust String is modelled as a sequence of one-character strings, so    *)
(* that push, push_str and pop act on characters as they do in the code.   *)
(* An Option<T> is a sequence of length 0 (None) or 1 (Some).              *)
(***************************************************************************)
EXTENDS Integers, Sequences, FiniteSets, TLC

VARIABLES
    unit,        \* the CriteriaCommand being built (lib.rs:97)
    passed,      \* history: the criteria handed to CriteriaCommand::criteria so far
    panicked,    \* TRUE once an assert_eq!/unreachable! of the builder has fired
    list,        \* the CommandList being built (lib.rs:21)
    inCriteria,  \* input of the two-order build: the criteria c1..cm
    inCommands,  \* input of the two-order build: the sub-commands s1..sn
    unitA,       \* the unit built criteria first, then sub-commands
    unitB,       \* the unit built sub-commands first, then criteria
    kind,        \* the type of the value handed to to_string()
    arg,         \* the value handed to to_string()
    out          \* Some(text) once to_string() has returned, None before

vars == <<unit, passed, panicked, list, inCriteria, inCommands, unitA, unitB,
          kind, arg, out>>

builderVars == <<unit, passed, panicked, list, inCriteria, inCommands, unitA, unitB>>

\* ------------------------------------------------------------------ bounds
MaxCriteria == 3
MaxCommands == 2
MaxEntries == 2
MaxList == 2
MaxText == 4

\* ------------------------------------------------------- strings, options
None == <<>>
Some(x) == <<x>>
is_some(o) == Len(o) = 1
is_none(o) == Len(o) = 0

\* String::pop: removes the last character and returns it, None on "".
pop(s) ==
    IF Len(s) = 0
    THEN [rest |-> s, ch |-> None]
    ELSE [rest |-> SubSeq(s, 1, Len(s) - 1), ch |-> Some(s[Len(s)])]

\* [T]::join(sep) on a sequence of strings.
RECURSIVE join(_, _)
join(strs, sep) ==
    IF Len(strs) = 0 THEN <<>>
    ELSE IF Len(strs) = 1 THEN strs[1]
    ELSE strs[1] \o sep \o join(Tail(strs), sep)

IsPrefix(s, t) == Len(s) <= Len(t) /\ SubSeq(t, 1, Len(s)) = s

BoundedSeq(S, n) == UNION {[1..k -> S] : k \in 0..n}

\* --------------------------------------------------- formatting primitives
\* the characters of radix 16, upper case
Digits == <<"0", "1", "2", "3", "4", "5", "6", "7", "8", "9",
            "A", "B", "C", "D", "E", "F">>

\* Display of an unsigned integer: decimal, no padding
RECURSIVE u32_fmt(_)
u32_fmt(n) ==
    IF n < 10 THEN <<Digits[n + 1]>>
    ELSE u32_fmt(n \div 10) \o <<Digits[(n % 10) + 1]>>

\* UpperHex of an unsigned integer ("{:X}"): no width, so no padding
RECURSIVE UpperHex_fmt(_)
UpperHex_fmt(n) ==
    IF n < 16 THEN <<Digits[n + 1]>>
    ELSE UpperHex_fmt(n \div 16) \o <<Digits[(n % 16) + 1]>>

\* char::is_whitespace, on the characters the inputs use
is_whitespace(ch) == ch \in {" ", "\t", "\n", "\r"}

\* str::split_whitespace: the maximal runs of non-whitespace characters
RECURSIVE split_whitespace(_)
split_whitespace(s) ==
    IF Len(s) = 0 THEN <<>>
    ELSE IF is_whitespace(s[1]) THEN split_whitespace(Tail(s))
    ELSE LET ws == {i \in 1..Len(s) : is_whitespace(s[i])}
             n == IF ws = {} THEN Len(s)
                  ELSE (CHOOSE i \in ws : \A j \in ws : i <= j) - 1
         IN  <<SubSeq(s, 1, n)>> \o split_whitespace(SubSeq(s, n + 1, Len(s)))

\* mutant: the words are joined without the space
normalize_whitespace_glued(value) == join(split_whitespace(value), <<>>)

\* normalize_whitespace (lib.rs)
normalize_whitespace(value) == join(split_whitespace(value), <<" ">>)

\* when (commands/mod.rs)
when(condition, then) == IF condition THEN then ELSE <<>>

\* mutant: an absent value renders as 0 instead of nothing
to_string_or_empty_zero(value) == IF is_some(value) THEN u32_fmt(value[1]) ELSE <<"0">>

\* to_string_or_empty (commands/mod.rs), on an Option<u32>
to_string_or_empty(value) == IF is_some(value) THEN u32_fmt(value[1]) ELSE <<>>

\* mutant: every element, the last included, is followed by the separator
separated_trailing(values, seperator) ==
    join([i \in 1..Len(values) |-> values[i] \o seperator], <<>>)

\* separated (commands/mod.rs), on a Vec<String>: to_string of each, then join
separated(values, seperator) ==
    join([i \in 1..Len(values) |-> values[i]], seperator)

\* ---------------------------------------------------------------- grammar
\* EnDisTog (commands/mod.rs)
EnDisTog_fmt(v) ==
    CASE v.tag = "Enable" -> <<"e", "n", "a", "b", "l", "e">>
      [] v.tag = "Disable" -> <<"d", "i", "s", "a", "b", "l", "e">>
      [] v.tag = "Toggle" -> <<"t", "o", "g", "g", "l", "e">>

\* Border (commands/runtime.rs)
Border_fmt(v) ==
    CASE v.tag = "None" -> <<"n", "o", "n", "e">>
      [] v.tag = "Normal" -> <<"n", "o", "r", "m", "a", "l", " ">> \o to_string_or_empty(v.a0)
      [] v.tag = "ClientSideDecorations" -> <<"c", "s", "d">>
      [] v.tag = "Pixel" -> <<"p", "i", "x", "e", "l", " ">> \o to_string_or_empty(v.a0)
      [] v.tag = "Toggle" -> <<"t", "o", "g", "g", "l", "e">>

\* FullscreenGlobal (commands/runtime.rs)
FullscreenGlobal_fmt(v) ==
    CASE v.tag = "Global" -> <<"g", "l", "o", "b", "a", "l">>
      [] v.tag = "No" -> <<>>

\* WorkspaceName (commands/mod.rs): Simple forwards to the String
WorkspaceName_fmt(v) ==
    CASE v.tag = "Simple" -> v.a0
      [] v.tag = "WithNumber" -> u32_fmt(v.a0) \o <<":">> \o v.a1

\* Workspace (commands/mod.rs): the format strings of Name and Number are
\* "_0" and "number _0", without braces, so the argument is not written
Workspace_fmt(v) ==
    CASE v.tag = "Name" -> <<"_", "0">>
      [] v.tag = "Number" -> <<"n", "u", "m", "b", "e", "r", " ", "_", "0">>
      [] v.tag = "Prev" -> <<"p", "r", "e", "v">>
      [] v.tag = "Next" -> <<"n", "e", "x", "t">>
      [] v.tag = "Current" -> <<"c", "u", "r", "r", "e", "n", "t">>
      [] v.tag = "PrevOnOutput" -> <<"p", "r", "e", "v", "_", "o", "n", "_", "o", "u", "t", "p", "u", "t">>
      [] v.tag = "NextOnOutput" -> <<"n", "e", "x", "t", "_", "o", "n", "_", "o", "u", "t", "p", "u", "t">>
      [] v.tag = "BackAndForth" -> <<"b", "a", "c", "k", "_", "a", "n", "d", "_", "f", "o", "r", "t", "h">>

\* GapsDirection (commands/mod.rs)
GapsDirection_fmt(v) ==
    CASE v.tag = "Inner" -> <<"i", "n", "n", "e", "r">>
      [] v.tag = "Outer" -> <<"o", "u", "t", "e", "r">>
      [] v.tag = "Horizontal" -> <<"h", "o", "r", "i", "z", "o", "n", "t", "a", "l">>
      [] v.tag = "Vertical" -> <<"v", "e", "r", "t", "i", "c", "a", "l">>
      [] v.tag = "Top" -> <<"t", "o", "p">>
      [] v.tag = "Right" -> <<"r", "i", "g", "h", "t">>
      [] v.tag = "Bottom" -> <<"b", "o", "t", "t", "o", "m">>
      [] v.tag = "Left" -> <<"l", "e", "f", "t">>

\* GapsWorkspaces (commands/runtime.rs)
GapsWorkspaces_fmt(v) ==
    CASE v.tag = "All" -> <<"a", "l", "l">>
      [] v.tag = "Current" -> <<"c", "u", "r", "r", "e", "n", "t">>

\* GapsModification (commands/runtime.rs)
GapsModification_fmt(v) ==
    CASE v.tag = "Set" -> <<"s", "e", "t">>
      [] v.tag = "Plus" -> <<"p", "l", "u", "s">>
      [] v.tag = "Minus" -> <<"m", "i", "n", "u", "s">>
      [] v.tag = "Toggle" -> <<"t", "o", "g", "g", "l", "e">>

\* Length (commands/runtime.rs)
Length_fmt(v) ==
    CASE v.tag = "Px" -> u32_fmt(v.a0) \o <<" ", "p", "x">>
      [] v.tag = "Ppt" -> u32_fmt(v.a0) \o <<" ", "p", "p", "t">>
      [] v.tag = "Default" -> u32_fmt(v.a0)

\* Move (commands/runtime.rs): both slots of Position and of
\* AbsolutePosition are written {_0}
Move_fmt(v) ==
    CASE v.tag = "Position" ->
            <<"p", "o", "s", "i", "t", "i", "o", "n", " ">> \o Length_fmt(v.a0) \o <<" ">> \o Length_fmt(v.a0)
      [] v.tag = "AbsolutePosition" ->
            <<"a", "b", "s", "o", "l", "u", "t", "e", " ", "p", "o", "s", "i", "t", "i", "o", "n", " ">> \o u32_fmt(v.a0) \o <<" ", "p", "x", " ">> \o u32_fmt(v.a0) \o <<" ", "p", "x">>
      [] v.tag = "PositionCenter" -> <<"p", "o", "s", "i", "t", "i", "o", "n", " ", "c", "e", "n", "t", "e", "r">>
      [] v.tag = "Mark" -> <<"c", "o", "n", "t", "a", "i", "n", "e", "r", " ", "t", "o", " ", "m", "a", "r", "k">>
      [] v.tag = "Workspace" -> <<"c", "o", "n", "t", "a", "i", "n", "e", "r", " ", "t", "o", " ", "w", "o", "r", "k", "s", "p", "a", "c", "e", " ">> \o Workspace_fmt(v.a0)
      [] v.tag = "Scratchpad" -> <<"c", "o", "n", "t", "a", "i", "n", "e", "r", " ", "t", "o", " ", "s", "c", "r", "a", "t", "c", "h", "p", "a", "d">>

\* Resize (commands/runtime.rs): both slots of Set are written {_0}
Resize_fmt(v) ==
    CASE v.tag = "SetHeight" -> <<"s", "e", "t", " ", "h", "e", "i", "g", "h", "t", " ">> \o Length_fmt(v.a0)
      [] v.tag = "SetWidth" -> <<"s", "e", "t", " ", "w", "i", "d", "t", "h", " ">> \o Length_fmt(v.a0)
      [] v.tag = "Set" ->
            <<"s", "e", "t", " ", "w", "i", "d", "t", "h", " ">> \o Length_fmt(v.a0) \o <<" ", "h", "e", "i", "g", "h", "t", " ">> \o Length_fmt(v.a0)

\* Swap (commands/runtime.rs)
Swap_fmt(v) ==
    CASE v.tag = "Id" -> <<"i", "d", " ">> \o v.a0
      [] v.tag = "ConId" -> <<"c", "o", "n", "_", "i", "d", " ">> \o v.a0
      [] v.tag = "Mark" -> <<"m", "a", "r", "k", " ">> \o v.a0

\* LayoutToggleOptions (commands/runtime.rs)
LayoutToggleOptions_fmt(v) ==
    CASE v.tag = "Split" -> <<"s", "p", "l", "i", "t">>
      [] v.tag = "Tabbed" -> <<"t", "a", "b", "b", "e", "d">>
      [] v.tag = "Stacking" -> <<"s", "t", "a", "c", "k", "i", "n", "g">>
      [] v.tag = "Splitv" -> <<"s", "p", "l", "i", "t", "v">>
      [] v.tag = "Splith" -> <<"s", "p", "l", "i", "t", "h">>

\* LayoutToggle (commands/runtime.rs): None has no display attribute and shows
\* its variant name; Options maps to_string over the Vec and joins with " "
LayoutToggle_fmt(v) ==
    CASE v.tag = "None" -> <<"N", "o", "n", "e">>
      [] v.tag = "Split" -> <<"s", "p", "l", "i", "t">>
      [] v.tag = "All" -> <<"a", "l", "l">>
      [] v.tag = "Options" ->
            join([i \in 1..Len(v.a0) |-> LayoutToggleOptions_fmt(v.a0[i])], <<" ">>)

\* SubCommand (commands/runtime.rs)
SubCommand_fmt(s) ==
    CASE s.tag = "Border" -> <<"b", "o", "r", "d", "e", "r", " ">> \o Border_fmt(s.a0)
      [] s.tag = "Exit" -> <<"e", "x", "i", "t">>
      [] s.tag = "Floating" ->
            <<"f", "l", "o", "a", "t", "i", "n", "g", " ">> \o EnDisTog_fmt(s.a0)
      [] s.tag = "Fullscreen" ->
            <<"f", "o", "c", "u", "s", " ">> \o EnDisTog_fmt(s.a0) \o <<" ">> \o FullscreenGlobal_fmt(s.a1)
      [] s.tag = "Gaps" ->
            <<"g", "a", "p", "s", " ">> \o GapsDirection_fmt(s.a0) \o <<" ">> \o GapsWorkspaces_fmt(s.a1)
                \o <<" ">> \o GapsModification_fmt(s.a2) \o <<",", " ">> \o u32_fmt(s.a3)
      [] s.tag = "Move" -> <<"m", "o", "v", "e", " ">> \o Move_fmt(s.a0)
      [] s.tag = "RenameWorkspace" -> <<"r", "e", "n", "a", "m", "e", " ", "w", "o", "r", "k", "s", "p", "a", "c", "e", " ">> \o s.a0 \o <<" ", "t", "o", " ">> \o s.a0
      [] s.tag = "Resize" -> <<"r", "e", "s", "i", "z", "e">>
      [] s.tag = "Sticky" -> <<"s", "t", "i", "c", "k", "y", " ">> \o EnDisTog_fmt(s.a0)
      [] s.tag = "Swap" -> <<"s", "t", "i", "c", "k", "y", " ">> \o Swap_fmt(s.a0)

\* mutant: a value renders as the sentinel too
OrFocused_fmt_sentinel_only(v) ==
    <<"_", "_", "f", "o", "c", "u", "s", "e", "d", "_", "_">>

\* OrFocused (criteria.rs): "__focused__" or the value's own Display
OrFocused_fmt(v) ==
    CASE v.tag = "Focused" -> <<"_", "_", "f", "o", "c", "u", "s", "e", "d", "_", "_">>
      [] v.tag = "Value" -> v.a0

\* OrFocused<u32> (criteria.rs)
OrFocused_u32_fmt(v) ==
    CASE v.tag = "Focused" -> <<"_", "_", "f", "o", "c", "u", "s", "e", "d", "_", "_">>
      [] v.tag = "Value" -> u32_fmt(v.a0)

\* Urgent (criteria.rs)
CriteriaUrgent_fmt(v) ==
    CASE v.tag = "First" -> <<"f", "i", "r", "s", "t">>
      [] v.tag = "Last" -> <<"l", "a", "s", "t">>
      [] v.tag = "Latest" -> <<"l", "a", "t", "e", "s", "t">>
      [] v.tag = "Newest" -> <<"n", "e", "w", "e", "s", "t">>
      [] v.tag = "Oldest" -> <<"o", "l", "d", "e", "s", "t">>
      [] v.tag = "Recent" -> <<"r", "e", "c", "e", "n", "t">>

\* WindowType (criteria.rs)
WindowType_fmt(v) ==
    CASE v.tag = "Normal" -> <<"n", "o", "r", "m", "a", "l">>
      [] v.tag = "Dialog" -> <<"d", "i", "a", "l", "o", "g">>
      [] v.tag = "Utility" -> <<"u", "t", "i", "l", "i", "t", "y">>
      [] v.tag = "Toolbar" -> <<"t", "o", "o", "l", "b", "a", "r">>
      [] v.tag = "Splash" -> <<"s", "p", "l", "a", "s", "h">>
      [] v.tag = "Menu" -> <<"m", "e", "n", "u">>
      [] v.tag = "DropdownMenu" -> <<"d", "r", "o", "p", "d", "o", "w", "n", "_", "m", "e", "n", "u">>
      [] v.tag = "PopupMenu" -> <<"p", "o", "p", "u", "p", "_", "m", "e", "n", "u">>
      [] v.tag = "Tooltip" -> <<"t", "o", "o", "l", "t", "i", "p">>
      [] v.tag = "Notification" -> <<"n", "o", "t", "i", "f", "i", "c", "a", "t", "i", "o", "n">>

\* Criteria (criteria.rs)
Criteria_fmt(c) ==
    CASE c.tag = "Floating" -> <<"f", "l", "o", "a", "t", "i", "n", "g">>
      [] c.tag = "Tiling" -> <<"t", "i", "l", "i", "n", "g">>
      [] c.tag = "AppId" -> <<"a", "p", "p", "_", "i", "d", "=", "\"">> \o OrFocused_fmt(c.a0) \o <<"\"">>
      [] c.tag = "Class" -> <<"c", "l", "a", "s", "s", "=", "\"">> \o OrFocused_fmt(c.a0) \o <<"\"">>
      [] c.tag = "ConMark" -> <<"c", "o", "n", "_", "m", "a", "r", "k", "=", "\"">> \o c.a0 \o <<"\"">>
      [] c.tag = "Title" -> <<"t", "i", "t", "l", "e", "=", "\"">> \o OrFocused_fmt(c.a0) \o <<"\"">>
      [] c.tag = "ConId" -> <<"c", "o", "n", "_", "i", "d", "=", "\"">> \o OrFocused_u32_fmt(c.a0) \o <<"\"">>
      [] c.tag = "Id" -> <<"i", "d", "=", "\"">> \o u32_fmt(c.a0) \o <<"\"">>
      [] c.tag = "Instance" -> <<"i", "n", "s", "t", "a", "n", "c", "e", "=", "\"">> \o OrFocused_fmt(c.a0) \o <<"\"">>
      [] c.tag = "Pid" -> <<"P", "i", "d", "=", "\"">> \o u32_fmt(c.a0) \o <<"\"">>
      [] c.tag = "Shell" -> <<"s", "h", "e", "l", "l", "=", "\"">> \o OrFocused_fmt(c.a0) \o <<"\"">>
      [] c.tag = "Urgent" -> <<"u", "r", "g", "e", "n", "t", "=", "\"">> \o CriteriaUrgent_fmt(c.a0) \o <<"\"">>
      [] c.tag = "WindowRole" -> <<"w", "i", "n", "d", "o", "w", "_", "r", "o", "l", "e", "=", "\"">> \o OrFocused_fmt(c.a0) \o <<"\"">>
      [] c.tag = "WindowType" -> <<"w", "i", "n", "d", "o", "w", "_", "t", "y", "p", "e", "=", "\"">> \o WindowType_fmt(c.a0) \o <<"\"">>
      [] c.tag = "Workspace" -> <<"w", "o", "r", "k", "s", "p", "a", "c", "e", "=", "\"">> \o OrFocused_fmt(c.a0) \o <<"\"">>

\* mutant: the release flag prints when it is unset
BindFlags_fmt_inverted(f) ==
    when(~f.release, <<"-", "-", "r", "e", "l", "e", "a", "s", "e">>)

\* BindFlags (commands/standalone.rs): ten slots separated by single spaces
BindFlags_fmt(f) ==
    when(f.whole_window, <<"-", "-", "w", "h", "o", "l", "e", "-", "w", "i", "n", "d", "o", "w">>) \o <<" ">>
        \o when(f.border, <<"-", "-", "b", "o", "r", "d", "e", "r">>) \o <<" ">>
        \o when(f.exclude_title_bar, <<"-", "-", "e", "x", "c", "l", "u", "d", "e", "-", "t", "i", "t", "l", "e", "-", "b", "a", "r">>) \o <<" ">>
        \o when(f.release, <<"-", "-", "r", "e", "l", "e", "a", "s", "e">>) \o <<" ">>
        \o when(f.locked, <<"-", "-", "l", "o", "c", "k", "e", "d">>) \o <<" ">>
        \o when(f.to_code, <<"-", "-", "t", "o", "-", "c", "o", "d", "e">>) \o <<" ">>
        \o (IF is_some(f.input_device)
            THEN <<"-", "-", "i", "n", "p", "u", "t", "-", "d", "e", "v", "i", "c", "e", "=">> \o f.input_device[1] ELSE <<>>) \o <<" ">>
        \o when(f.no_warn, <<"-", "-", "n", "o", "-", "w", "a", "r", "n">>) \o <<" ">>
        \o when(f.no_repeat, <<"-", "-", "n", "o", "-", "r", "e", "p", "e", "a", "t">>) \o <<" ">>
        \o when(f.inhibited, <<"-", "-", "i", "n", "h", "i", "b", "i", "t", "e", "d">>)

\* BindFlags::default()
BindFlags_default ==
    [whole_window |-> FALSE, border |-> FALSE, exclude_title_bar |-> FALSE,
     release |-> FALSE, locked |-> FALSE, to_code |-> FALSE, input_device |-> None,
     no_warn |-> FALSE, no_repeat |-> FALSE, inhibited |-> FALSE]

\* Group (commands/standalone.rs)
Group_fmt(v) ==
    CASE v.tag = "None" -> <<>>
      [] v.tag = "Group1" -> <<"G", "r", "o", "u", "p", "1", "+">>
      [] v.tag = "Group2" -> <<"G", "r", "o", "u", "p", "2", "+">>
      [] v.tag = "Group3" -> <<"G", "r", "o", "u", "p", "3", "+">>
      [] v.tag = "Group4" -> <<"G", "r", "o", "u", "p", "4", "+">>

\* mutant: the control token is written before the shift token
Modifiers_fmt_control_first(m) ==
    when(m.mod1, <<"M", "o", "d", "1", "+">>) \o when(m.mod2, <<"M", "o", "d", "2", "+">>) \o when(m.mod3, <<"M", "o", "d", "3", "+">>)
        \o when(m.mod4, <<"M", "o", "d", "4", "+">>) \o when(m.control, <<"C", "o", "n", "t", "r", "o", "l", "+">>)
        \o when(m.shift, <<"S", "h", "i", "f", "t", "+">>)

\* Modifiers (commands/standalone.rs): the set flags' tokens, in field order
Modifiers_fmt(m) ==
    when(m.mod1, <<"M", "o", "d", "1", "+">>) \o when(m.mod2, <<"M", "o", "d", "2", "+">>) \o when(m.mod3, <<"M", "o", "d", "3", "+">>)
        \o when(m.mod4, <<"M", "o", "d", "4", "+">>) \o when(m.shift, <<"S", "h", "i", "f", "t", "+">>)
        \o when(m.control, <<"C", "o", "n", "t", "r", "o", "l", "+">>)

\* Modifiers::default()
Modifiers_default ==
    [mod1 |-> FALSE, mod2 |-> FALSE, mod3 |-> FALSE, mod4 |-> FALSE,
     shift |-> FALSE, control |-> FALSE]

\* SymKey (commands/standalone.rs): "{group}{modifiers}{key}"
SymKey_fmt(k) == Group_fmt(k.group) \o Modifiers_fmt(k.modifiers) \o k.key

\* SymKey::key
SymKey_key(key) ==
    [group |-> [tag |-> "None"], modifiers |-> Modifiers_default, key |-> key]

\* then_or_empty(alpha, |a| format!("{a:X}")) (commands/mod.rs, standalone.rs)
then_or_empty_hex(value) == IF is_some(value) THEN UpperHex_fmt(value[1]) ELSE <<>>

\* Color (commands/standalone.rs): "#{red:X}{green:X}{blue:X}{}"
Color_fmt(c) ==
    <<"#">> \o UpperHex_fmt(c.red) \o UpperHex_fmt(c.green) \o UpperHex_fmt(c.blue)
        \o then_or_empty_hex(c.alpha)

\* Urgent (commands/standalone.rs)
Urgent_fmt(v) ==
    CASE v.tag = "Enable" -> <<"e", "n", "a", "b", "l", "e">>
      [] v.tag = "Disable" -> <<"d", "i", "s", "a", "b", "l", "e">>
      [] v.tag = "Allow" -> <<"a", "l", "l", "o", "w">>
      [] v.tag = "Deny" -> <<"d", "e", "n", "y">>

Floating == [tag |-> "Floating"]
Tiling == [tag |-> "Tiling"]
BorderNone == [tag |-> "Border", a0 |-> [tag |-> "None"]]
FloatingDisable == [tag |-> "Floating", a0 |-> [tag |-> "Disable"]]

\* the values the operations are called with
CriteriaInputs == {Floating, Tiling}
SubCommandInputs == {BorderNone, FloatingDisable}

\* ----------------------------------------------------------- CriteriaList
\* mutant: the format string of new lacks the closing bracket
CriteriaList_new_unclosed(c) ==
    [rep |-> <<"[">> \o Criteria_fmt(c), criteria |-> <<c>>]

\* CriteriaList::new: rep is format!("[{criteria}]")
CriteriaList_new(c) ==
    [rep |-> <<"[">> \o Criteria_fmt(c) \o <<"]">>, criteria |-> <<c>>]

\* the assert_eq!(self.rep.pop(), Some(']')) of CriteriaList::criteria fails
CriteriaList_criteria_panics(g) == pop(g.rep).ch # Some("]")

\* mutant: the group formats the criterion into its text
CriteriaList_criteria_formatted(g, c) ==
    [rep |-> pop(g.rep).rest \o <<" ">> \o Criteria_fmt(c) \o <<"]">>,
     criteria |-> Append(g.criteria, c)]

\* mutant: the criterion is inserted at the front of the sequence
CriteriaList_criteria_front(g, c) ==
    [rep |-> pop(g.rep).rest
                \o <<" ", "{", "c", "r", "i", "t", "e", "r", "i", "a", "}", "]">>,
     criteria |-> <<c>> \o g.criteria]

\* CriteriaList::criteria: pops the "]", then push_str of the string literal
\* " {criteria}]" (a plain literal: push_str does no formatting), then pushes
\* the criterion onto the sequence.
CriteriaList_criteria(g, c) ==
    [rep |-> pop(g.rep).rest
                \o <<" ", "{", "c", "r", "i", "t", "e", "r", "i", "a", "}", "]">>,
     criteria |-> Append(g.criteria, c)]

\* Display / AsRef<str> of CriteriaList: "{rep}"
CriteriaList_fmt(g) == g.rep

\* -------------------------------------------------------- CriteriaCommand
\* CriteriaCommand::default()
CriteriaCommand_default == [rep |-> <<>>, criteria |-> None, commands |-> <<>>]

\* mutant: from leaves the cached string at its default
CriteriaCommand_from_empty_rep(s) ==
    [rep |-> <<>>, criteria |-> None, commands |-> <<s>>]

\* mutant: from leaves the sub-command sequence at its default
CriteriaCommand_from_no_commands(s) ==
    [rep |-> SubCommand_fmt(s), criteria |-> None, commands |-> <<>>]

\* impl From<SubCommand> for CriteriaCommand
CriteriaCommand_from(s) ==
    [rep |-> SubCommand_fmt(s), criteria |-> None, commands |-> <<s>>]

\* CriteriaCommand::get_commands
get_commands(u) == u.commands

\* mutant: the "," is decided by the cached string being non-empty
CriteriaCommand_command_by_rep(u, s) ==
    [rep |-> (IF Len(u.rep) # 0 THEN u.rep \o <<",">> ELSE u.rep)
                \o SubCommand_fmt(s),
     criteria |-> u.criteria,
     commands |-> Append(u.commands, s)]

\* mutant: command never pushes the "," separator
CriteriaCommand_command_no_sep(u, s) ==
    [rep |-> u.rep \o SubCommand_fmt(s),
     criteria |-> u.criteria,
     commands |-> Append(u.commands, s)]

\* mutant: command inserts the sub-command at the front of the sequence
CriteriaCommand_command_front(u, s) ==
    [rep |-> (IF Len(u.commands) # 0 THEN u.rep \o <<",">> ELSE u.rep)
                \o SubCommand_fmt(s),
     criteria |-> u.criteria,
     commands |-> <<s>> \o u.commands]

\* CriteriaCommand::command
CriteriaCommand_command(u, s) ==
    [rep |-> (IF Len(u.commands) # 0 THEN u.rep \o <<",">> ELSE u.rep)
                \o SubCommand_fmt(s),
     criteria |-> u.criteria,
     commands |-> Append(u.commands, s)]

\* CriteriaCommand::criteria panics: the unreachable!() of the let-else, the
\* assertion inside the nested CriteriaList::criteria, or the unit's own
\* assert_eq! on the in-place path.
CriteriaCommand_criteria_panics(u) ==
    IF Len(u.commands) = 0 /\ is_some(u.criteria)
    THEN \/ is_none(u.criteria)
         \/ CriteriaList_criteria_panics(u.criteria[1])
         \/ pop(u.rep).ch # Some("]")
    ELSE is_some(u.criteria) /\ CriteriaList_criteria_panics(u.criteria[1])

\* the tail of the rebuild path: commands[0], then "," + command for the rest
rebuild_commands(u) ==
    IF Len(u.commands) # 0
    THEN join([i \in 1..Len(u.commands) |-> SubCommand_fmt(u.commands[i])], <<",">>)
    ELSE <<>>

\* mutant: the rebuild path formats the group's criteria afresh
CriteriaCommand_criteria_rebuild_fresh(u, c) ==
    IF Len(u.commands) = 0 /\ is_some(u.criteria)
    THEN [rep |-> pop(u.rep).rest
                    \o <<" ", "{", "c", "r", "i", "t", "e", "r", "i", "a", "}", "]">>,
          criteria |-> Some(CriteriaList_criteria(u.criteria[1], c)),
          commands |-> u.commands]
    ELSE LET criterias == IF is_some(u.criteria)
                          THEN CriteriaList_criteria(u.criteria[1], c)
                          ELSE CriteriaList_new(c)
         IN  [rep |-> <<"[">>
                        \o join([i \in 1..Len(criterias.criteria) |->
                                    Criteria_fmt(criterias.criteria[i])], <<" ">>)
                        \o <<"]">> \o rebuild_commands(u),
              criteria |-> Some(criterias),
              commands |-> u.commands]

\* mutant: the rebuild path drains the sub-commands it re-appends
CriteriaCommand_criteria_drain(u, c) ==
    IF Len(u.commands) = 0 /\ is_some(u.criteria)
    THEN [rep |-> pop(u.rep).rest
                    \o <<" ", "{", "c", "r", "i", "t", "e", "r", "i", "a", "}", "]">>,
          criteria |-> Some(CriteriaList_criteria(u.criteria[1], c)),
          commands |-> u.commands]
    ELSE LET criterias == IF is_some(u.criteria)
                          THEN CriteriaList_criteria(u.criteria[1], c)
                          ELSE CriteriaList_new(c)
         IN  [rep |-> CriteriaList_fmt(criterias) \o rebuild_commands(u),
              criteria |-> Some(criterias),
              commands |-> <<>>]

\* mutant: the rebuild path re-appends commands[0] only
CriteriaCommand_criteria_first_only(u, c) ==
    IF Len(u.commands) = 0 /\ is_some(u.criteria)
    THEN [rep |-> pop(u.rep).rest
                    \o <<" ", "{", "c", "r", "i", "t", "e", "r", "i", "a", "}", "]">>,
          criteria |-> Some(CriteriaList_criteria(u.criteria[1], c)),
          commands |-> u.commands]
    ELSE LET criterias == IF is_some(u.criteria)
                          THEN CriteriaList_criteria(u.criteria[1], c)
                          ELSE CriteriaList_new(c)
         IN  [rep |-> CriteriaList_fmt(criterias)
                        \o (IF Len(u.commands) # 0
                            THEN SubCommand_fmt(u.commands[1]) ELSE <<>>),
              criteria |-> Some(criterias),
              commands |-> u.commands]

\* CriteriaCommand::criteria
CriteriaCommand_criteria(u, c) ==
    IF Len(u.commands) = 0 /\ is_some(u.criteria)
    THEN \* in-place patch: pop "]", push_str of the literal " {criteria}]"
         [rep |-> pop(u.rep).rest
                    \o <<" ", "{", "c", "r", "i", "t", "e", "r", "i", "a", "}", "]">>,
          criteria |-> Some(CriteriaList_criteria(u.criteria[1], c)),
          commands |-> u.commands]
    ELSE LET criterias == IF is_some(u.criteria)
                          THEN CriteriaList_criteria(u.criteria[1], c)
                          ELSE CriteriaList_new(c)
         IN  [rep |-> CriteriaList_fmt(criterias) \o rebuild_commands(u),
              criteria |-> Some(criterias),
              commands |-> u.commands]

\* Display / AsRef<str> of CriteriaCommand: "{rep}"
CriteriaCommand_fmt(u) == u.rep

\* ---------------------------------------------------- Command, CommandList
\* impl From<SubCommand> for Command: #[from(types(SubCommand))] on Criteria
Command_from_SubCommand(s) == [kind |-> "Criteria", v |-> CriteriaCommand_from(s)]

\* impl From<CriteriaCommand> for Command
Command_from_CriteriaCommand(u) == [kind |-> "Criteria", v |-> u]

\* #[from(forward)] on Raw(String): From<&str> and From<String>
Command_from_str(t) == [kind |-> "Raw", v |-> t]

\* impl From<CriterialessCommand> for Command: boxed into Criterialess
Command_from_CriterialessCommand(c) == [kind |-> "Criterialess", v |-> c]

RECURSIVE Command_fmt(_), CriterialessCommand_fmt(_)

\* CriterialessCommand (commands/standalone.rs)
CriterialessCommand_fmt(c) ==
    CASE c.tag = "Bindsym" ->
            <<"b", "i", "n", "d", "s", "y", "m", " ">> \o BindFlags_fmt(c.a0) \o <<" ">> \o SymKey_fmt(c.a1)
                \o <<" ">> \o Command_fmt(c.a2)
      [] c.tag = "Input" -> <<"i", "n", "p", "u", "t", " ">> \o c.a0 \o <<" ">> \o separated(c.a1, <<" ">>)
      [] c.tag = "Kill" -> <<"k", "i", "l", "l">>
      [] c.tag = "Mode" -> <<"m", "o", "d", "e">>
      [] c.tag = "Unmark" -> <<"u", "n", "m", "a", "r", "k", " ">> \o c.a0
      [] c.tag = "Urgent" -> <<"u", "n", "m", "a", "r", "k", " ">> \o Urgent_fmt(c.a0)

\* mutant: Raw text is shown with its ";" characters removed
Command_fmt_sanitized(cmd) ==
    CASE cmd.kind = "Criteria" -> CriteriaCommand_fmt(cmd.v)
      [] cmd.kind = "Criterialess" -> CriterialessCommand_fmt(cmd.v)
      [] cmd.kind = "Raw" -> SelectSeq(cmd.v, LAMBDA ch : ch # ";")

\* #[derive(Display)] on Command: each variant shows its single field
Command_fmt(cmd) ==
    CASE cmd.kind = "Criteria" -> CriteriaCommand_fmt(cmd.v)
      [] cmd.kind = "Criterialess" -> CriterialessCommand_fmt(cmd.v)
      [] cmd.kind = "Raw" -> cmd.v

\* CommandList::default()
CommandList_default == [rep |-> <<>>, commands |-> <<>>]

\* mutant: no separator is written before an entry that renders empty
CommandList_command_skip_empty(l, cmd) ==
    [rep |-> (IF Len(l.commands) # 0 /\ Len(Command_fmt(cmd)) # 0
              THEN l.rep \o <<";">> ELSE l.rep)
                \o Command_fmt(cmd),
     commands |-> Append(l.commands, cmd)]

\* mutant: the separator is decided by the cached text being non-empty
CommandList_command_by_rep(l, cmd) ==
    [rep |-> (IF Len(l.rep) # 0 THEN l.rep \o <<";">> ELSE l.rep)
                \o Command_fmt(cmd),
     commands |-> Append(l.commands, cmd)]

\* CommandList::command, after command.into()
CommandList_command(l, cmd) ==
    [rep |-> (IF Len(l.commands) # 0 THEN l.rep \o <<";">> ELSE l.rep)
                \o Command_fmt(cmd),
     commands |-> Append(l.commands, cmd)]

\* raw texts handed to CommandList::command
RawInputs ==
    { <<"w", "o", "r", "k", "s", "p", "a", "c", "e", " ", "5">>,
      <<"a", ";", "b", ",", "[", "c", "]">>,
      <<>> }

\* units handed to CommandList::command, each built by the builder calls
UnitInputs ==
    { CriteriaCommand_default,
      CriteriaCommand_command(
          CriteriaCommand_criteria(CriteriaCommand_default, Floating), FloatingDisable),
      CriteriaCommand_criteria(CriteriaCommand_from(BorderNone), Tiling),
      CriteriaCommand_criteria(
          CriteriaCommand_criteria(CriteriaCommand_from(BorderNone), Floating), Tiling) }

\* criteria-less commands handed to CommandList::command (the doc test's)
CriterialessInputs ==
    { [tag |-> "Bindsym", a0 |-> BindFlags_default, a1 |-> SymKey_key(<<"a">>),
       a2 |-> Command_from_SubCommand([tag |-> "Exit", a0 |-> [tag |-> "None"]])] }

\* ------------------------------------------------------------------- Init
Init ==
    /\ unit \in {CriteriaCommand_default}
                    \cup {CriteriaCommand_from(s) : s \in SubCommandInputs}
    /\ passed = <<>>
    /\ panicked = FALSE
    /\ list = CommandList_default
    /\ inCriteria = <<>>
    /\ inCommands = <<>>
    /\ unitA = CriteriaCommand_default
    /\ unitB = CriteriaCommand_default
    /\ kind = "none"
    /\ arg = <<>>
    /\ out = None

\* ---------------------------------------------------------------- actions
\* unit = unit.criteria(c)
UnitCriteria(c) ==
    /\ ~panicked
    /\ Len(passed) < MaxCriteria
    /\ IF CriteriaCommand_criteria_panics(unit)
       THEN panicked' = TRUE /\ UNCHANGED <<unit, passed>>
       ELSE /\ unit' = CriteriaCommand_criteria(unit, c)
            /\ passed' = Append(passed, c)
            /\ UNCHANGED panicked
    /\ UNCHANGED <<list, inCriteria, inCommands, unitA, unitB, kind, arg, out>>

\* unit = unit.command(s)
UnitCommand(s) ==
    /\ ~panicked
    /\ Len(unit.commands) < MaxCommands
    /\ unit' = CriteriaCommand_command(unit, s)
    /\ UNCHANGED <<passed, panicked, list, inCriteria, inCommands, unitA, unitB, kind, arg, out>>

\* list = list.command(cmd), cmd already converted by Into<Command>
ListCommand(cmd) ==
    /\ ~panicked
    /\ Len(list.commands) < MaxEntries
    /\ list' = CommandList_command(list, cmd)
    /\ UNCHANGED <<unit, passed, panicked, inCriteria, inCommands, unitA, unitB, kind, arg, out>>

\* list.command("raw text")
ListCommandStr(t) == ListCommand(Command_from_str(t))

\* list.command(SubCommand)
ListCommandSubCommand(s) == ListCommand(Command_from_SubCommand(s))

\* list.command(CriteriaCommand)
ListCommandCriteriaCommand(u) == ListCommand(Command_from_CriteriaCommand(u))

\* list.command(CriterialessCommand)
ListCommandCriterialessCommand(c) == ListCommand(Command_from_CriterialessCommand(c))

Next ==
    \/ \E c \in CriteriaInputs : UnitCriteria(c)
    \/ \E s \in SubCommandInputs : UnitCommand(s)
    \/ \E t \in RawInputs : ListCommandStr(t)
    \/ \E s \in SubCommandInputs : ListCommandSubCommand(s)
    \/ \E u \in UnitInputs : ListCommandCriteriaCommand(u)
    \/ \E c \in CriterialessInputs : ListCommandCriterialessCommand(c)

Spec == Init /\ [][Next]_vars

\* ------------------------------------------- the two build orders of a unit
\* The same criteria and sub-commands are applied to two fresh units: unitA
\* takes all criteria and then all sub-commands, unitB all sub-commands and
\* then all criteria. How far each has come is read off its structured data.
doneCriteria(u) == IF is_some(u.criteria) THEN Len(u.criteria[1].criteria) ELSE 0

InitOrder ==
    /\ inCriteria \in BoundedSeq(CriteriaInputs, MaxCriteria)
    /\ inCommands \in BoundedSeq(SubCommandInputs, MaxCommands)
    /\ unitA = CriteriaCommand_default
    /\ unitB = CriteriaCommand_default
    /\ unit = CriteriaCommand_default
    /\ passed = <<>>
    /\ panicked = FALSE
    /\ list = CommandList_default
    /\ kind = "none"
    /\ arg = <<>>
    /\ out = None

OrderACriteria ==
    /\ ~panicked
    /\ doneCriteria(unitA) < Len(inCriteria)
    /\ IF CriteriaCommand_criteria_panics(unitA)
       THEN panicked' = TRUE /\ UNCHANGED unitA
       ELSE /\ unitA' = CriteriaCommand_criteria(unitA, inCriteria[doneCriteria(unitA) + 1])
            /\ UNCHANGED panicked
    /\ UNCHANGED <<unit, passed, list, inCriteria, inCommands, unitB, kind, arg, out>>

OrderACommand ==
    /\ ~panicked
    /\ doneCriteria(unitA) = Len(inCriteria)
    /\ Len(unitA.commands) < Len(inCommands)
    /\ unitA' = CriteriaCommand_command(unitA, inCommands[Len(unitA.commands) + 1])
    /\ UNCHANGED <<unit, passed, panicked, list, inCriteria, inCommands, unitB, kind, arg, out>>

OrderBCommand ==
    /\ ~panicked
    /\ Len(unitB.commands) < Len(inCommands)
    /\ unitB' = CriteriaCommand_command(unitB, inCommands[Len(unitB.commands) + 1])
    /\ UNCHANGED <<unit, passed, panicked, list, inCriteria, inCommands, unitA, kind, arg, out>>

OrderBCriteria ==
    /\ ~panicked
    /\ Len(unitB.commands) = Len(inCommands)
    /\ doneCriteria(unitB) < Len(inCriteria)
    /\ IF CriteriaCommand_criteria_panics(unitB)
       THEN panicked' = TRUE /\ UNCHANGED unitB
       ELSE /\ unitB' = CriteriaCommand_criteria(unitB, inCriteria[doneCriteria(unitB) + 1])
            /\ UNCHANGED panicked
    /\ UNCHANGED <<unit, passed, list, inCriteria, inCommands, unitA, kind, arg, out>>

NextOrder == OrderACriteria \/ OrderACommand \/ OrderBCommand \/ OrderBCriteria

SpecOrder == InitOrder /\ [][NextOrder]_vars

\* ------------------------------------------------ arbitrary interleavings
\* Two units receive the criteria of inCriteria and the sub-commands of
\* inCommands, each in its own interleaving of criteria() and command() calls.
InterleaveACriteria ==
    /\ ~panicked
    /\ doneCriteria(unitA) < Len(inCriteria)
    /\ IF CriteriaCommand_criteria_panics(unitA)
       THEN panicked' = TRUE /\ UNCHANGED unitA
       ELSE /\ unitA' = CriteriaCommand_criteria(unitA, inCriteria[doneCriteria(unitA) + 1])
            /\ UNCHANGED panicked
    /\ UNCHANGED <<unit, passed, list, inCriteria, inCommands, unitB, kind, arg, out>>

InterleaveACommand ==
    /\ ~panicked
    /\ Len(unitA.commands) < Len(inCommands)
    /\ unitA' = CriteriaCommand_command(unitA, inCommands[Len(unitA.commands) + 1])
    /\ UNCHANGED <<unit, passed, panicked, list, inCriteria, inCommands, unitB, kind, arg, out>>

InterleaveBCriteria ==
    /\ ~panicked
    /\ doneCriteria(unitB) < Len(inCriteria)
    /\ IF CriteriaCommand_criteria_panics(unitB)
       THEN panicked' = TRUE /\ UNCHANGED unitB
       ELSE /\ unitB' = CriteriaCommand_criteria(unitB, inCriteria[doneCriteria(unitB) + 1])
            /\ UNCHANGED panicked
    /\ UNCHANGED <<unit, passed, list, inCriteria, inCommands, unitA, kind, arg, out>>

InterleaveBCommand ==
    /\ ~panicked
    /\ Len(unitB.commands) < Len(inCommands)
    /\ unitB' = CriteriaCommand_command(unitB, inCommands[Len(unitB.commands) + 1])
    /\ UNCHANGED <<unit, passed, panicked, list, inCriteria, inCommands, unitA, kind, arg, out>>

NextInterleave ==
    \/ InterleaveACriteria
    \/ InterleaveACommand
    \/ InterleaveBCriteria
    \/ InterleaveBCommand

SpecInterleave == InitOrder /\ [][NextInterleave]_vars

\* ------------------------------------------------- two ways of creation
\* unitA = CriteriaCommand::from(s), unitB = CriteriaCommand::default().command(s);
\* afterwards both receive the same calls.
CreateInputs == SubCommandInputs \cup {[tag |-> "Exit", a0 |-> [tag |-> "None"]]}

InitCreate ==
    /\ \E s \in CreateInputs :
          /\ unitA = CriteriaCommand_from(s)
          /\ unitB = CriteriaCommand_command(CriteriaCommand_default, s)
    /\ unit = CriteriaCommand_default
    /\ passed = <<>>
    /\ panicked = FALSE
    /\ list = CommandList_default
    /\ inCriteria = <<>>
    /\ inCommands = <<>>
    /\ kind = "none"
    /\ arg = <<>>
    /\ out = None

CreateBothCriteria(c) ==
    /\ ~panicked
    /\ doneCriteria(unitA) < MaxCriteria
    /\ IF CriteriaCommand_criteria_panics(unitA) \/ CriteriaCommand_criteria_panics(unitB)
       THEN panicked' = TRUE /\ UNCHANGED <<unitA, unitB>>
       ELSE /\ unitA' = CriteriaCommand_criteria(unitA, c)
            /\ unitB' = CriteriaCommand_criteria(unitB, c)
            /\ UNCHANGED panicked
    /\ UNCHANGED <<unit, passed, list, inCriteria, inCommands, kind, arg, out>>

CreateBothCommand(s) ==
    /\ ~panicked
    /\ Len(unitB.commands) < MaxCommands
    /\ unitA' = CriteriaCommand_command(unitA, s)
    /\ unitB' = CriteriaCommand_command(unitB, s)
    /\ UNCHANGED <<unit, passed, panicked, list, inCriteria, inCommands, kind, arg, out>>

NextCreate ==
    \/ \E c \in CriteriaInputs : CreateBothCriteria(c)
    \/ \E s \in CreateInputs : CreateBothCommand(s)

SpecCreate == InitCreate /\ [][NextCreate]_vars

\* ------------------------------------------------- rendering single values
\* One value of the grammar is constructed and to_string() is called on it.
NameInputs == {<<"1">>, <<"w", "e", "b">>}
NumberInputs == {0, 2, 10, 305}
ByteInputs == {0, 1, 16, 255}
OptionNumberInputs == {None} \cup {Some(n) : n \in NumberInputs}
OptionByteInputs == {None} \cup {Some(n) : n \in ByteInputs}
EnDisTogInputs == {[tag |-> "Enable"], [tag |-> "Disable"], [tag |-> "Toggle"]}
LengthInputs ==
    {[tag |-> g, a0 |-> n] : g \in {"Px", "Ppt", "Default"}, n \in {0, 10}}
OrFocusedInputs ==
    {[tag |-> "Focused", a0 |-> <<>>]} \cup {[tag |-> "Value", a0 |-> n] : n \in NameInputs}
LayoutToggleOptionsInputs ==
    {[tag |-> g] : g \in {"Split", "Tabbed", "Stacking", "Splitv", "Splith"}}
BindFlagsInputs ==
    { BindFlags_default,
      [BindFlags_default EXCEPT !.release = TRUE, !.no_repeat = TRUE],
      [BindFlags_default EXCEPT !.input_device = Some(<<"1">>)] }
SymKeyInputs ==
    { SymKey_key(<<"a">>),
      [SymKey_key(<<"R", "e", "t", "u", "r", "n">>) EXCEPT !.modifiers.mod4 = TRUE, !.modifiers.shift = TRUE] }
\* WorkspaceName::Simple carries one field; a1 only gives it the shape of
\* WithNumber
WorkspaceNameInputs ==
    {[tag |-> "Simple", a0 |-> n, a1 |-> <<>>] : n \in NameInputs}
        \cup {[tag |-> "WithNumber", a0 |-> 2, a1 |-> n] : n \in NameInputs}
WorkspaceInputs ==
    {[tag |-> g, a0 |-> n] : g \in {"Name", "Number"}, n \in WorkspaceNameInputs}
TextInputs == BoundedSeq({" ", "\t", "a", "b"}, MaxText)
BorderNormalNone == [tag |-> "Border", a0 |-> [tag |-> "Normal", a0 |-> None]]
\* SubCommand::Exit carries no argument; a0 only gives it the shape of the others
Exit == [tag |-> "Exit", a0 |-> [tag |-> "None"]]
\* the nested commands of a binding, each converted by Into<Command>
BoundCommandInputs ==
    { Command_from_SubCommand(Exit),
      Command_from_SubCommand(BorderNone),
      Command_from_SubCommand(BorderNormalNone),
      Command_from_CriteriaCommand(
          CriteriaCommand_command(
              CriteriaCommand_criteria(CriteriaCommand_default, Floating),
              FloatingDisable)) }

InitRender ==
    /\ unit = CriteriaCommand_default
    /\ passed = <<>>
    /\ panicked = FALSE
    /\ list = CommandList_default
    /\ inCriteria = <<>>
    /\ inCommands = <<>>
    /\ unitA = CriteriaCommand_default
    /\ unitB = CriteriaCommand_default
    /\ out = None
    /\ \/ /\ kind = "Modifiers"
          /\ arg \in [mod1 : BOOLEAN, mod2 : BOOLEAN, mod3 : BOOLEAN,
                       mod4 : BOOLEAN, shift : BOOLEAN, control : BOOLEAN]
       \/ /\ kind = "Color"
          /\ arg \in [red : ByteInputs, green : ByteInputs, blue : ByteInputs,
                       alpha : OptionByteInputs]
       \/ /\ kind = "Border"
          /\ \/ \E g \in {"None", "ClientSideDecorations", "Toggle"} : arg = [tag |-> g]
             \/ \E g \in {"Normal", "Pixel"}, o \in OptionNumberInputs :
                    arg = [tag |-> g, a0 |-> o]
       \/ /\ kind = "LayoutToggle"
          /\ \/ \E g \in {"None", "Split", "All"} : arg = [tag |-> g]
             \/ \E os \in BoundedSeq(LayoutToggleOptionsInputs, MaxList) :
                    arg = [tag |-> "Options", a0 |-> os]
       \/ /\ kind = "Criteria"
          /\ \/ \E g \in {"Floating", "Tiling"} : arg = [tag |-> g]
             \/ \E g \in {"AppId", "Class", "Title"}, v \in OrFocusedInputs :
                    arg = [tag |-> g, a0 |-> v]
             \/ \E g \in {"Instance", "Shell", "WindowRole", "Workspace"},
                   v \in OrFocusedInputs :
                    arg = [tag |-> g, a0 |-> v]
             \/ \E v \in NameInputs : arg = [tag |-> "ConMark", a0 |-> v]
             \/ \E g \in {"Id", "Pid"}, n \in NumberInputs : arg = [tag |-> g, a0 |-> n]
             \/ arg = [tag |-> "ConId", a0 |-> [tag |-> "Focused"]]
             \/ \E n \in NumberInputs :
                    arg = [tag |-> "ConId", a0 |-> [tag |-> "Value", a0 |-> n]]
             \/ \E g \in {"First", "Last", "Latest", "Newest", "Oldest", "Recent"} :
                    arg = [tag |-> "Urgent", a0 |-> [tag |-> g]]
             \/ \E g \in {"Normal", "Dialog", "Utility", "Toolbar", "Splash", "Menu",
                            "DropdownMenu", "PopupMenu", "Tooltip", "Notification"} :
                    arg = [tag |-> "WindowType", a0 |-> [tag |-> g]]
       \/ /\ kind = "Move"
          /\ \/ \E x, y \in LengthInputs : arg = [tag |-> "Position", a0 |-> x, a1 |-> y]
             \/ \E x, y \in NumberInputs :
                    arg = [tag |-> "AbsolutePosition", a0 |-> x, a1 |-> y]
             \/ \E g \in {"PositionCenter", "Scratchpad"} : arg = [tag |-> g]
             \/ \E m \in NameInputs : arg = [tag |-> "Mark", a0 |-> m]
             \/ \E w \in WorkspaceInputs : arg = [tag |-> "Workspace", a0 |-> w]
       \/ /\ kind = "Workspace"
          /\ \/ arg \in WorkspaceInputs
             \/ \E g \in {"Prev", "Next", "Current", "PrevOnOutput", "NextOnOutput",
                            "BackAndForth"} : arg = [tag |-> g]
       \/ /\ kind = "Text"
          /\ arg \in TextInputs
       \/ /\ kind = "Resize"
          /\ \/ \E w, h \in LengthInputs : arg = [tag |-> "Set", a0 |-> w, a1 |-> h]
             \/ \E g \in {"SetWidth", "SetHeight"}, w \in LengthInputs :
                    arg = [tag |-> g, a0 |-> w]
       \/ /\ kind = "SubCommand"
          /\ \/ \E old, new \in NameInputs :
                    arg = [tag |-> "RenameWorkspace", a0 |-> old, a1 |-> new]
             \/ \E e \in EnDisTogInputs, g \in {"Global", "No"} :
                    arg = [tag |-> "Fullscreen", a0 |-> e, a1 |-> [tag |-> g]]
             \/ \E g \in {"Floating", "Sticky"}, e \in EnDisTogInputs :
                    arg = [tag |-> g, a0 |-> e]
             \/ \E g \in {"Id", "ConId", "Mark"}, v \in NameInputs :
                    arg = [tag |-> "Swap", a0 |-> [tag |-> g, a0 |-> v]]
             \/ \E w \in LengthInputs :
                    arg = [tag |-> "Resize", a0 |-> [tag |-> "SetWidth", a0 |-> w]]
             \/ \E d \in {"Inner", "Outer", "Horizontal", "Vertical", "Top", "Right",
                            "Bottom", "Left"},
                   w \in {"All", "Current"},
                   m \in {"Set", "Plus", "Minus", "Toggle"},
                   n \in {0, 10} :
                    arg = [tag |-> "Gaps", a0 |-> [tag |-> d], a1 |-> [tag |-> w],
                           a2 |-> [tag |-> m], a3 |-> n]
             \/ arg \in {Exit, BorderNone, BorderNormalNone}
       \/ /\ kind = "CriterialessCommand"
          /\ \/ \E f \in BindFlagsInputs, k \in SymKeyInputs, c \in BoundCommandInputs :
                    arg = [tag |-> "Bindsym", a0 |-> f, a1 |-> k, a2 |-> c]
             \/ \E f \in BindFlagsInputs, k \in SymKeyInputs :
                    arg = [tag |-> "Bindsym", a0 |-> f, a1 |-> k,
                           a2 |-> Command_from_str(<<"w", "o", "r", "k", "s", "p", "a", "c", "e", " ", "5">>)]
             \/ \E id \in NameInputs, vs \in BoundedSeq({<<"x", "k", "b", "_", "l", "a", "y", "o", "u", "t">>, <<"d", "e">>}, MaxList) :
                    arg = [tag |-> "Input", a0 |-> id, a1 |-> vs]
             \/ \E g \in {"Enable", "Disable", "Allow", "Deny"} :
                    arg = [tag |-> "Urgent", a0 |-> [tag |-> g]]
             \/ \E g \in {"Unmark", "Mode"}, v \in NameInputs : arg = [tag |-> g, a0 |-> v]
             \/ arg = [tag |-> "Kill"]

\* out = arg.to_string(), for each type of the grammar
RenderModifiers ==
    /\ kind = "Modifiers" /\ is_none(out)
    /\ out' = Some(Modifiers_fmt(arg))
    /\ UNCHANGED <<builderVars, kind, arg>>

RenderColor ==
    /\ kind = "Color" /\ is_none(out)
    /\ out' = Some(Color_fmt(arg))
    /\ UNCHANGED <<builderVars, kind, arg>>

RenderBorder ==
    /\ kind = "Border" /\ is_none(out)
    /\ out' = Some(Border_fmt(arg))
    /\ UNCHANGED <<builderVars, kind, arg>>

RenderLayoutToggle ==
    /\ kind = "LayoutToggle" /\ is_none(out)
    /\ out' = Some(LayoutToggle_fmt(arg))
    /\ UNCHANGED <<builderVars, kind, arg>>

RenderCriteria ==
    /\ kind = "Criteria" /\ is_none(out)
    /\ out' = Some(Criteria_fmt(arg))
    /\ UNCHANGED <<builderVars, kind, arg>>

RenderMove ==
    /\ kind = "Move" /\ is_none(out)
    /\ out' = Some(Move_fmt(arg))
    /\ UNCHANGED <<builderVars, kind, arg>>

RenderResize ==
    /\ kind = "Resize" /\ is_none(out)
    /\ out' = Some(Resize_fmt(arg))
    /\ UNCHANGED <<builderVars, kind, arg>>

RenderSubCommand ==
    /\ kind = "SubCommand" /\ is_none(out)
    /\ out' = Some(SubCommand_fmt(arg))
    /\ UNCHANGED <<builderVars, kind, arg>>

RenderCriterialessCommand ==
    /\ kind = "CriterialessCommand" /\ is_none(out)
    /\ out' = Some(CriterialessCommand_fmt(arg))
    /\ UNCHANGED <<builderVars, kind, arg>>

RenderWorkspace ==
    /\ kind = "Workspace" /\ is_none(out)
    /\ out' = Some(Workspace_fmt(arg))
    /\ UNCHANGED <<builderVars, kind, arg>>

\* out = normalize_whitespace(arg)
NormalizeWhitespace ==
    /\ kind = "Text" /\ is_none(out)
    /\ out' = Some(normalize_whitespace(arg))
    /\ UNCHANGED <<builderVars, kind, arg>>

NextRender ==
    \/ RenderModifiers
    \/ RenderColor
    \/ RenderBorder
    \/ RenderLayoutToggle
    \/ RenderCriteria
    \/ RenderMove
    \/ RenderResize
    \/ RenderSubCommand
    \/ RenderCriterialessCommand
    \/ RenderWorkspace
    \/ NormalizeWhitespace

SpecRender == InitRender /\ [][NextRender]_vars

\* the value has been rendered
rendered(k) == kind = k /\ is_some(out)

builtA == doneCriteria(unitA) = Len(inCriteria) /\ Len(unitA.commands) = Len(inCommands)
builtB == doneCriteria(unitB) = Len(inCriteria) /\ Len(unitB.commands) = Len(inCommands)

\* ------------------------------------------------- the render of the spec
\* "[" + c1 + " " + ... + cm + "]"
criteria_render(cs) ==
    <<"[">> \o join([i \in 1..Len(cs) |-> Criteria_fmt(cs[i])], <<" ">>) \o <<"]">>

\* s1 + "," + ... + sn
commands_render(ss) == join([i \in 1..Len(ss) |-> SubCommand_fmt(ss[i])], <<",">>)

\* the canonical render of a unit's structured data
canonical_render(u) ==
    (IF is_some(u.criteria) THEN criteria_render(u.criteria[1].criteria) ELSE <<>>)
        \o commands_render(u.commands)

\* ----------------------------------------------------------------- claims
\* C1: after any sequence of criteria and command calls, from default() or
\* from(sub_command), the unit's cached string equals the canonical render of
\* its criteria and sub-commands.
C1_CachedEqualsCanonical == unit.rep = canonical_render(unit)

\* C2: after CriteriaList::new(c1) and any number of criteria(ci) calls, the
\* group's cached text equals "[" + c1 + " " + ... + cm + "]" recomputed from
\* its structured sequence.
C2_GroupCachedEqualsRender ==
    is_some(unit.criteria) =>
        CriteriaList_fmt(unit.criteria[1]) = criteria_render(unit.criteria[1].criteria)

\* C3: the list's cached text equals the Display texts of its entries, in
\* append order, joined by ";" with no leading or trailing ";".
C3_ListJoinsEntries ==
    list.rep = join([i \in 1..Len(list.commands) |-> Command_fmt(list.commands[i])],
                    <<";">>)

C3_Witness ==
    /\ Len(list.commands) = 2
    /\ list.commands[1].kind = "Raw"
    /\ list.commands[1].v = <<"w", "o", "r", "k", "s", "p", "a", "c", "e", " ", "5">>
    /\ list.commands[2].kind = "Criteria"
    /\ list.commands[2].v = CriteriaCommand_from(BorderNone)
    /\ list.rep = <<"w", "o", "r", "k", "s", "p", "a", "c", "e", " ", "5", ";",
                    "b", "o", "r", "d", "e", "r", " ", "n", "o", "n", "e">>

\* C4: a unit without criteria that holds N >= 1 sub-commands renders as
\* their independently computed renders joined by ",", in append order.
C4_AppendOrder ==
    (is_none(unit.criteria) /\ Len(unit.commands) >= 1) =>
        unit.rep = commands_render(unit.commands)

C4_Witness ==
    /\ is_none(unit.criteria)
    /\ unit.commands = <<FloatingDisable, BorderNone>>
    /\ ~panicked

\* C5: once both orders are complete, the unit built criteria-first and the
\* unit built sub-commands-first have the same rendered text.
C5_OrdersAgree == (builtA /\ builtB) => unitA.rep = unitB.rep

C5_Witness ==
    /\ builtA /\ builtB
    /\ Len(inCriteria) >= 2
    /\ Len(inCommands) >= 2
    /\ inCriteria[1] # inCriteria[2]

\* C6: no reachable state has a fired assertion or unreachable!().
C6_NoPanic == ~panicked

C6_Witness ==
    /\ ~panicked
    /\ Len(passed) >= 3
    /\ Len(unit.commands) >= 1

\* C7: every step keeps the unit's sub-commands and the list's entries as a
\* prefix of what they become; a command() call adds exactly its argument at
\* the end.
C7_OnlyGrow ==
    [][ /\ IsPrefix(get_commands(unit), get_commands(unit'))
        /\ IsPrefix(list.commands, list'.commands)
        /\ \A s \in SubCommandInputs :
              UnitCommand(s) => get_commands(unit') = Append(get_commands(unit), s)
        /\ \A t \in RawInputs :
              ListCommandStr(t) =>
                  list'.commands = Append(list.commands, Command_from_str(t))
        /\ \A s \in SubCommandInputs :
              ListCommandSubCommand(s) =>
                  list'.commands = Append(list.commands, Command_from_SubCommand(s))
        /\ \A u \in UnitInputs :
              ListCommandCriteriaCommand(u) =>
                  list'.commands = Append(list.commands, Command_from_CriteriaCommand(u))
      ]_vars

C7_Witness ==
    /\ Len(unit.commands) = 2
    /\ Len(passed) >= 1
    /\ Len(list.commands) = 2

\* C8: a unit's group, when present, is non-empty and holds exactly the
\* criteria passed so far in call order; it is present as soon as one
\* criterion was passed, and never becomes absent again.
C8_GroupNeverEmptyOrdered ==
    /\ [](/\ (is_some(unit.criteria) =>
                 (/\ Len(unit.criteria[1].criteria) >= 1
                  /\ unit.criteria[1].criteria = passed))
           /\ (is_none(unit.criteria) => passed = <<>>))
    /\ [][is_some(unit.criteria) => is_some(unit'.criteria)]_vars

C8_Witness ==
    /\ is_some(unit.criteria)
    /\ passed = <<Tiling, Floating, Tiling>>
    /\ Len(unit.commands) >= 1

\* C9: appending raw text t to the list adds t itself, character for
\* character, after the ";" separator if the list had entries.
C9_RawUnchanged ==
    [][ \A t \in RawInputs :
          ListCommandStr(t) =>
              list'.rep = (IF Len(list.commands) # 0 THEN list.rep \o <<";">> ELSE list.rep)
                            \o t
      ]_vars

C9_Witness ==
    /\ Len(list.commands) = 2
    /\ list.commands[1].kind = "Criteria"
    /\ list.commands[2].kind = "Raw"
    /\ list.commands[2].v = <<"a", ";", "b", ",", "[", "c", "]">>
    /\ list.rep = Command_fmt(list.commands[1]) \o <<";", "a", ";", "b", ",", "[", "c", "]">>

\* C10: appending a bare SubCommand s adds render(s) without brackets, the
\* same as appending the unit CriteriaCommand::from(s); appending a unit with
\* one criterion c and one sub-command s adds "[" + render(c) + "]" + render(s).
C10_BareAndTargeted ==
    [][ LET sep == IF Len(list.commands) # 0 THEN list.rep \o <<";">> ELSE list.rep
        IN  /\ \A s \in SubCommandInputs :
                  ListCommandSubCommand(s) =>
                      /\ list'.rep = sep \o SubCommand_fmt(s)
                      /\ list' = CommandList_command(list,
                                    Command_from_CriteriaCommand(CriteriaCommand_from(s)))
            /\ \A u \in UnitInputs :
                  (/\ ListCommandCriteriaCommand(u)
                   /\ doneCriteria(u) = 1
                   /\ Len(u.commands) = 1) =>
                      list'.rep = sep \o <<"[">> \o Criteria_fmt(u.criteria[1].criteria[1])
                                      \o <<"]">> \o SubCommand_fmt(u.commands[1])
      ]_vars

C10_Witness ==
    /\ Len(list.commands) = 2
    /\ list.commands[1].kind = "Criteria"
    /\ list.commands[1].v = CriteriaCommand_from(BorderNone)
    /\ list.commands[2].kind = "Criteria"
    /\ doneCriteria(list.commands[2].v) = 1
    /\ list.rep = <<"b", "o", "r", "d", "e", "r", " ", "n", "o", "n", "e", ";",
                    "[", "f", "l", "o", "a", "t", "i", "n", "g", "]",
                    "f", "l", "o", "a", "t", "i", "n", "g", " ",
                    "d", "i", "s", "a", "b", "l", "e">>

\* ------------------------------------------------ claims about the grammar
\* text without leading, trailing or repeated whitespace
is_normalized(s) == normalize_whitespace(s) = s

ModifierTokens ==
    << <<"mod1", <<"M", "o", "d", "1", "+">>>>, <<"mod2", <<"M", "o", "d", "2", "+">>>>, <<"mod3", <<"M", "o", "d", "3", "+">>>>,
       <<"mod4", <<"M", "o", "d", "4", "+">>>>, <<"shift", <<"S", "h", "i", "f", "t", "+">>>>, <<"control", <<"C", "o", "n", "t", "r", "o", "l", "+">>>> >>

RECURSIVE tokens_of(_, _)
tokens_of(m, i) ==
    IF i > Len(ModifierTokens) THEN <<>>
    ELSE (IF m[ModifierTokens[i][1]] THEN ModifierTokens[i][2] ELSE <<>>)
            \o tokens_of(m, i + 1)

C12_ModifiersOrder ==
    rendered("Modifiers") =>
        /\ out[1] = tokens_of(arg, 1)
        /\ (arg = [Modifiers_default EXCEPT !.mod4 = TRUE, !.shift = TRUE]) =>
                out[1] = <<"M", "o", "d", "4", "+", "S", "h", "i", "f", "t", "+">>
        /\ (arg = Modifiers_default) => out[1] = <<>>

C12_Witness ==
    /\ rendered("Modifiers")
    /\ arg = [Modifiers_default EXCEPT !.mod4 = TRUE, !.shift = TRUE]
    /\ out = Some(<<"M", "o", "d", "4", "+", "S", "h", "i", "f", "t", "+">>)

\* C13: a Color renders as "#" followed by exactly two upper-case
\* hexadecimal digits per component: 7 characters without alpha, 9 with.
Hex2(b) == <<Digits[(b \div 16) + 1], Digits[(b % 16) + 1]>>

C13_ColorTwoDigits ==
    rendered("Color") =>
        /\ out[1] = <<"#">> \o Hex2(arg.red) \o Hex2(arg.green) \o Hex2(arg.blue)
                        \o (IF is_some(arg.alpha) THEN Hex2(arg.alpha[1]) ELSE <<>>)
        /\ Len(out[1]) = (IF is_some(arg.alpha) THEN 9 ELSE 7)

\* C14: Border::Normal(None) renders "normal " and Border::Pixel(None)
\* "pixel ", the trailing space kept; Normal(Some(n)) renders "normal "
\* followed by n in decimal.
Decimal(n) ==
    CASE n = 0 -> <<"0">>
      [] n = 2 -> <<"2">>
      [] n = 10 -> <<"1", "0">>
      [] n = 305 -> <<"3", "0", "5">>

C14_EmptyOptional ==
    (rendered("Border") /\ arg.tag \in {"Normal", "Pixel"}) =>
        LET word == IF arg.tag = "Normal" THEN <<"n", "o", "r", "m", "a", "l", " ">> ELSE <<"p", "i", "x", "e", "l", " ">>
        IN  IF is_none(arg.a0)
            THEN out[1] = word /\ out[1][Len(out[1])] = " "
            ELSE out[1] = word \o Decimal(arg.a0[1])

C14_Witness ==
    /\ rendered("Border")
    /\ arg = [tag |-> "Normal", a0 |-> None]
    /\ out = Some(<<"n", "o", "r", "m", "a", "l", " ">>)

\* C15: a list-valued argument renders as its elements in order with the
\* separator between neighbours only: length - 1 separators for a non-empty
\* list, none at the end, and nothing for the empty list.
RECURSIVE joined_from_left(_, _)
joined_from_left(strs, sep) ==
    IF Len(strs) = 0 THEN <<>>
    ELSE IF Len(strs) = 1 THEN strs[1]
    ELSE joined_from_left(SubSeq(strs, 1, Len(strs) - 1), sep) \o sep \o strs[Len(strs)]

count_of(s, ch) == Cardinality({i \in 1..Len(s) : s[i] = ch})

list_rendered(text, elems) ==
    /\ text = joined_from_left(elems, <<" ">>)
    /\ Len(elems) = 0 => text = <<>>
    /\ Len(elems) >= 1 =>
          /\ count_of(text, " ") = Len(elems) - 1
          /\ text[Len(text)] # " "

C15_Separated ==
    /\ (rendered("CriterialessCommand") /\ arg.tag = "Input") =>
          LET head == <<"i", "n", "p", "u", "t", " ">> \o arg.a0 \o <<" ">>
          IN  /\ IsPrefix(head, out[1])
              /\ list_rendered(SubSeq(out[1], Len(head) + 1, Len(out[1])), arg.a1)
    /\ (rendered("LayoutToggle") /\ arg.tag = "Options") =>
          list_rendered(out[1],
                        [i \in 1..Len(arg.a0) |-> LayoutToggleOptions_fmt(arg.a0[i])])

C15_Witness ==
    /\ rendered("CriterialessCommand")
    /\ arg.tag = "Input"
    /\ out = Some(<<"i", "n", "p", "u", "t", " ", "w", "e", "b", " ", "x", "k", "b", "_", "l", "a", "y", "o", "u", "t", " ", "d", "e">>)

\* C16: OrFocused renders the sentinel "__focused__" for Focused and the
\* value's own text for Value(v), one or the other: AppId(Focused) renders
\* app_id="__focused__" and AppId(Value(v)) renders app_id="v".
C16_ValueOrFocused ==
    (rendered("Criteria") /\ arg.tag \in {"AppId", "Class", "Title"}) =>
        LET key == CASE arg.tag = "AppId" -> <<"a", "p", "p", "_", "i", "d">>
                     [] arg.tag = "Class" -> <<"c", "l", "a", "s", "s">>
                     [] arg.tag = "Title" -> <<"t", "i", "t", "l", "e">>
        IN  IF arg.a0.tag = "Focused"
            THEN out[1] = key \o <<"=", "\"", "_", "_", "f", "o", "c", "u", "s", "e", "d", "_", "_", "\"">>
            ELSE out[1] = key \o <<"=", "\"">> \o arg.a0.a0 \o <<"\"">>

C16_Witness ==
    /\ rendered("Criteria")
    /\ arg.tag = "AppId"
    /\ arg.a0.tag = "Value"
    /\ out = Some(<<"a", "p", "p", "_", "i", "d", "=", "\"", "w", "e", "b", "\"">>)

\* C17: a variant with two positional arguments renders both, each in its
\* own position: "rename workspace <old> to <new>", "position <x> <y>",
\* "absolute position <x> px <y> px", "set width <w> height <h>".
C17_BothArguments ==
    /\ (rendered("SubCommand") /\ arg.tag = "RenameWorkspace") =>
          out[1] = <<"r", "e", "n", "a", "m", "e", " ", "w", "o", "r", "k", "s", "p", "a", "c", "e", " ">> \o arg.a0 \o <<" ", "t", "o", " ">> \o arg.a1
    /\ (rendered("Move") /\ arg.tag = "Position") =>
          out[1] = <<"p", "o", "s", "i", "t", "i", "o", "n", " ">> \o Length_fmt(arg.a0) \o <<" ">> \o Length_fmt(arg.a1)
    /\ (rendered("Move") /\ arg.tag = "AbsolutePosition") =>
          out[1] = <<"a", "b", "s", "o", "l", "u", "t", "e", " ", "p", "o", "s", "i", "t", "i", "o", "n", " ">> \o u32_fmt(arg.a0) \o <<" ", "p", "x", " ">>
                        \o u32_fmt(arg.a1) \o <<" ", "p", "x">>
    /\ (rendered("Resize") /\ arg.tag = "Set") =>
          out[1] = <<"s", "e", "t", " ", "w", "i", "d", "t", "h", " ">> \o Length_fmt(arg.a0) \o <<" ", "h", "e", "i", "g", "h", "t", " ">>
                        \o Length_fmt(arg.a1)

\* C18: Fullscreen renders starting with "fullscreen", Swap with "swap" and
\* the criteria-less Urgent with "urgent".
C18_OwnKeyword ==
    /\ (rendered("SubCommand") /\ arg.tag = "Fullscreen") =>
          IsPrefix(<<"f", "u", "l", "l", "s", "c", "r", "e", "e", "n">>, out[1])
    /\ (rendered("SubCommand") /\ arg.tag = "Swap") => IsPrefix(<<"s", "w", "a", "p">>, out[1])
    /\ (rendered("CriterialessCommand") /\ arg.tag = "Urgent") =>
          IsPrefix(<<"u", "r", "g", "e", "n", "t">>, out[1])

\* ------------------------------------- claims about the unit's two paths
\* C19: appending criterion c to a unit with a group and no sub-command
\* gives the old cached string without its trailing "]", followed by
\* " " + render(c) + "]"; the group's own cached text changes the same way.
C19_InPlacePatch ==
    [][ \A c \in CriteriaInputs :
          (/\ UnitCriteria(c)
           /\ is_some(unit.criteria)
           /\ Len(unit.commands) = 0) =>
              /\ unit'.rep = pop(unit.rep).rest \o <<" ">> \o Criteria_fmt(c) \o <<"]">>
              /\ CriteriaList_fmt(unit'.criteria[1])
                    = pop(CriteriaList_fmt(unit.criteria[1])).rest
                        \o <<" ">> \o Criteria_fmt(c) \o <<"]">>
      ]_vars

\* C20: appending a criterion to a unit with at least one sub-command gives
\* the bracketed, space-joined render of the updated group followed by the
\* sub-commands' renders joined by ",", whether or not a group existed.
C20_FullRebuild ==
    [][ \A c \in CriteriaInputs :
          (UnitCriteria(c) /\ Len(unit.commands) >= 1) =>
              unit'.rep = criteria_render(unit'.criteria[1].criteria)
                            \o commands_render(unit.commands)
      ]_vars

\* C21: appending sub-command s to a unit with cached string P gives
\* P + render(s) when the unit has no sub-command yet (P being empty or the
\* bracketed criteria prefix, nothing between "]" and the sub-command) and
\* P + "," + render(s) when it has one; the sub-command sequence decides.
C21_CommandAppend ==
    [][ \A s \in SubCommandInputs :
          UnitCommand(s) =>
              IF Len(unit.commands) = 0
              THEN /\ unit'.rep = unit.rep \o SubCommand_fmt(s)
                   /\ \/ unit.rep = <<>>
                      \/ /\ unit.rep[1] = "["
                         /\ unit.rep[Len(unit.rep)] = "]"
                         /\ unit'.rep[Len(unit.rep) + 1] \notin {" ", ","}
              ELSE unit'.rep = unit.rep \o <<",">> \o SubCommand_fmt(s)
      ]_vars

C21_Witness ==
    /\ unit.rep = <<"[", "f", "l", "o", "a", "t", "i", "n", "g", "]", "b", "o", "r", "d", "e", "r", " ", "n", "o", "n", "e">>
    /\ Len(unit.commands) = 1
    /\ is_some(unit.criteria)

\* C22: command leaves the Criteria Group (presence, criteria sequence,
\* cached text) unchanged; criteria leaves the sub-command sequence
\* unchanged, on the rebuild path too.
C22_Frames ==
    [][ /\ \A s \in SubCommandInputs :
              UnitCommand(s) => unit'.criteria = unit.criteria
        /\ \A c \in CriteriaInputs :
              UnitCriteria(c) => unit'.commands = unit.commands
      ]_vars

C22_Witness ==
    /\ is_some(unit.criteria)
    /\ Len(unit.criteria[1].criteria) = 2
    /\ Len(unit.commands) = 2

\* C23: the unit's cached string is the cached text of its own group (empty
\* without a group) followed by the comma-join of its sub-commands' renders.
group_text(u) == IF is_some(u.criteria) THEN CriteriaList_fmt(u.criteria[1]) ELSE <<>>

C23_UnitFollowsGroup ==
    unit.rep = group_text(unit) \o commands_render(unit.commands)

C23_Witness ==
    /\ is_some(unit.criteria)
    /\ Len(unit.criteria[1].criteria) = 3
    /\ Len(unit.commands) = 1
    /\ unit.rep = group_text(unit) \o commands_render(unit.commands)

\* C24: the cached string is determined by the structured state alone: two
\* units that received the same criteria in the same order and the same
\* sub-commands in the same order, in whatever interleaving of the calls,
\* carry identical cached strings.
C24_InterleavingsAgree ==
    (unitA.criteria = unitB.criteria /\ unitA.commands = unitB.commands) =>
        unitA.rep = unitB.rep

C24_Witness ==
    /\ builtA /\ builtB
    /\ Len(inCriteria) >= 2
    /\ Len(inCommands) >= 2
    /\ unitA.rep = unitB.rep

\* C26: CriteriaCommand::from(s) and CriteriaCommand::default().command(s)
\* give the same state (cached string render(s), sub-commands [s], no
\* group), and the same further calls keep the two cached strings equal.
C26_CreationsAgree ==
    /\ unitA.rep = unitB.rep
    /\ unitA.commands = unitB.commands
    /\ unitA.criteria = unitB.criteria
    /\ (is_none(unitA.criteria) /\ Len(unitA.commands) = 1) =>
          unitA.rep = SubCommand_fmt(unitA.commands[1])
    /\ (is_none(unitB.criteria) /\ Len(unitB.commands) = 1) =>
          unitB.rep = SubCommand_fmt(unitB.commands[1])

C26_Witness ==
    /\ unitA.rep = <<"e", "x", "i", "t", ",", "b", "o", "r", "d", "e", "r", " ", "n", "o", "n", "e">>
    /\ unitB.rep = <<"e", "x", "i", "t", ",", "b", "o", "r", "d", "e", "r", " ", "n", "o", "n", "e">>
    /\ unitA.commands = unitB.commands

\* C25: CommandList::command writes exactly one ";" before every entry but
\* the first, decided by the entry sequence being non-empty, also when the
\* entries so far render to the empty string; the separators written number
\* the entries minus one.
RECURSIVE renders_len(_)
renders_len(cmds) ==
    IF Len(cmds) = 0 THEN 0
    ELSE Len(Command_fmt(cmds[1])) + renders_len(Tail(cmds))

C25_OneSeparatorPerEntry ==
    [][ Len(list'.commands) = Len(list.commands) + 1 =>
          LET entry == list'.commands[Len(list'.commands)]
          IN  /\ list'.rep = (IF Len(list.commands) >= 1
                               THEN list.rep \o <<";">> ELSE list.rep)
                                  \o Command_fmt(entry)
              /\ Len(list'.rep) - renders_len(list'.commands)
                    = Len(list'.commands) - 1
      ]_vars

C25_Witness ==
    /\ Len(list.commands) = 2
    /\ list.rep = <<";">>

\* C27: every argument of a positional variant appears in its text:
\* SubCommand::Resize(r) renders "resize " + render(r), Mode(m) "mode " + m,
\* Move::Mark(m) "container to mark " + m, Workspace::Name(n) renders n and
\* Workspace::Number(n) "number " + n.
C27_ArgumentsRendered ==
    /\ (rendered("SubCommand") /\ arg.tag = "Resize") =>
          out[1] = <<"r", "e", "s", "i", "z", "e", " ">> \o Resize_fmt(arg.a0)
    /\ (rendered("CriterialessCommand") /\ arg.tag = "Mode") =>
          out[1] = <<"m", "o", "d", "e", " ">> \o arg.a0
    /\ (rendered("Move") /\ arg.tag = "Mark") =>
          out[1] = <<"c", "o", "n", "t", "a", "i", "n", "e", "r", " ", "t", "o", " ", "m", "a", "r", "k", " ">> \o arg.a0
    /\ (rendered("Workspace") /\ arg.tag = "Name") =>
          out[1] = WorkspaceName_fmt(arg.a0)
    /\ (rendered("Workspace") /\ arg.tag = "Number") =>
          out[1] = <<"n", "u", "m", "b", "e", "r", " ">> \o WorkspaceName_fmt(arg.a0)

\* C28: SubCommand::Gaps renders "gaps <direction> <workspaces>
\* <modification> <amount>", the arguments separated by single spaces, and
\* its text contains no ",".
C28_GapsNoComma ==
    (rendered("SubCommand") /\ arg.tag = "Gaps") =>
        /\ out[1] = <<"g", "a", "p", "s", " ">> \o GapsDirection_fmt(arg.a0) \o <<" ">>
                        \o GapsWorkspaces_fmt(arg.a1) \o <<" ">>
                        \o GapsModification_fmt(arg.a2) \o <<" ">> \o u32_fmt(arg.a3)
        /\ count_of(out[1], ",") = 0

\* C29: a value-carrying criterion renders <key>="<value>", the key being
\* the lowercase snake_case form of the variant's name and the value inside
\* one pair of double quotes; Floating and Tiling render as bare words.
criterion_key(g) ==
    CASE g = "AppId" -> <<"a", "p", "p", "_", "i", "d">>
      [] g = "Class" -> <<"c", "l", "a", "s", "s">>
      [] g = "ConId" -> <<"c", "o", "n", "_", "i", "d">>
      [] g = "ConMark" -> <<"c", "o", "n", "_", "m", "a", "r", "k">>
      [] g = "Id" -> <<"i", "d">>
      [] g = "Instance" -> <<"i", "n", "s", "t", "a", "n", "c", "e">>
      [] g = "Pid" -> <<"p", "i", "d">>
      [] g = "Shell" -> <<"s", "h", "e", "l", "l">>
      [] g = "Title" -> <<"t", "i", "t", "l", "e">>
      [] g = "Urgent" -> <<"u", "r", "g", "e", "n", "t">>
      [] g = "WindowRole" -> <<"w", "i", "n", "d", "o", "w", "_", "r", "o", "l", "e">>
      [] g = "WindowType" -> <<"w", "i", "n", "d", "o", "w", "_", "t", "y", "p", "e">>
      [] g = "Workspace" -> <<"w", "o", "r", "k", "s", "p", "a", "c", "e">>

C29_CriteriaKeys ==
    rendered("Criteria") =>
        IF arg.tag \in {"Floating", "Tiling"}
        THEN out[1] = (IF arg.tag = "Floating" THEN <<"f", "l", "o", "a", "t", "i", "n", "g">> ELSE <<"t", "i", "l", "i", "n", "g">>)
        ELSE /\ IsPrefix(criterion_key(arg.tag) \o <<"=", "\"">>, out[1])
             /\ out[1][Len(out[1])] = "\""
             /\ count_of(out[1], "\"") = 2

\* C30: normalize_whitespace turns every run of whitespace into one space,
\* removes leading and trailing whitespace, keeps the other characters and
\* their order, and returns an already normalized text unchanged.
non_whitespace_at(s) ==
    LET keep(i) == ~is_whitespace(s[i])
    IN  SelectSeq([i \in 1..Len(s) |-> i], keep)

C30_NormalizeWhitespace ==
    rendered("Text") =>
        LET o == out[1]
            po == non_whitespace_at(o)
            pa == non_whitespace_at(arg)
        IN  /\ Len(po) = Len(pa)
            /\ \A k \in 1..Len(po) : o[po[k]] = arg[pa[k]]
            /\ \A i \in 1..Len(o) : is_whitespace(o[i]) => o[i] = " "
            /\ Len(po) = 0 => o = <<>>
            /\ Len(po) >= 1 => (po[1] = 1 /\ po[Len(po)] = Len(o))
            /\ \A k \in 2..Len(po) :
                  po[k] - po[k - 1] = (IF pa[k] - pa[k - 1] > 1 THEN 2 ELSE 1)
            /\ normalize_whitespace(o) = o

C30_Witness ==
    /\ rendered("Text")
    /\ arg = <<" ", "a", "\t", "b">>
    /\ out = Some(<<"a", " ", "b">>)

====
